---- MODULE Spec2Model ----
(***************************************************************************)
(* A model of dag_compute (src/src/lib.rs): the ComputationGraph builder   *)
(* (insert_node, node_name, designate_output, set_inputs) and the          *)
(* evaluation entry point compute, with its topological sort, dead-code    *)
(* sweep and reference-counted evaluation loop.                            *)
(*                                                                         *)
(* Option<T> is a sequence of length 0 (None) or 1 (Some).  A panic is the *)
(* record field panic # NoPanic; the program stops there.  Node functions  *)
(* are opaque callables: the function of the i-th inserted node is the     *)
(* uninterpreted symbol i, and the value it returns on args is the term    *)
(* <<i, args>>, so that two values are equal only if they were computed by *)
(* the same functions from the same arguments in the same order.           *)
(***************************************************************************)
EXTENDS Integers, Sequences, FiniteSets, TLC

\* Bounds of the model.
MaxNodes == 3
MaxEdges == 2

\* slotmap keys: slot indices, issued in insertion order (no slot is freed
\* while the graph is being built, and compute consumes the graph).
Keys == 1..MaxNodes

\* Possible values of the address token taken at lib.rs:77.
Addrs == {1, 2}

\* Tokens are opaque and only compared for equality: the graph modelled here holds
\* the first one, the other graph holds the same one or another one.
FirstAddr == CHOOSE a \in Addrs : \A b \in Addrs : a <= b

Names == {"n"}

NoPanic == ""
PanicDifferentGraph == "Received NodeHandle for different graph"
PanicAlreadyDesignated == "Output was already designated"
PanicContainsKey == "assertion failed: self.node_storage.contains_key(node_key)"
PanicSelfLoop == "Inputs would create self-loop"
PanicUnwrapNone == "called Option::unwrap() on a None value"
PanicNotDesignated == "Output not yet designated"
PanicCycle == "Computation graph contains cycle"
PanicRefcntZero == "assertion failed: *in_refcnt > 0"
PanicSubOverflow == "attempt to subtract with overflow"
PanicAlreadyEvaluated == "Node is already evaluated"
PanicNotEvaluated == "Node has not yet been evaluated"
PanicLenNotOne == "assertion failed: self.node_storage.len() == 1"
PanicTryUnwrap == "called Option::unwrap() on a None value (Arc::try_unwrap)"
PanicDebugAssert == "assertion failed (debug_assert)"

VARIABLES
    node_storage,     \* SlotMap<ComputeGraphKey, Node<T>>: a function on the live keys
    node_refcount,    \* SecondaryMap<ComputeGraphKey, u32>: a function on its keys
    output_node,      \* Option<ComputeGraphKey>
    graph_id,         \* the identity token of this graph
    other_graph_id,   \* the identity token of a second graph that lives at the same time
    pc,               \* position of the program
    err,              \* the panic message once pc = "panicked"
    last_call,        \* the public call being (or last) executed, and what it was given
    n_edges,          \* number of input handles passed to set_inputs so far (at most MaxEdges)
    wired,            \* per key, the list given to the last successful set_inputs
    designated,       \* the key given to the successful designate_output (Option)
    sort_list,        \* computation_order's sort_list, then compute's compute_order
    node_key,         \* the loop variable of compute (Option)
    nodes_cleanup,    \* compute's nodes_cleanup
    node_input_arcs,  \* compute's node_input_arcs: the Arcs held, as [key, val]
    calls,            \* log of the node functions invoked: [node, args, result]
    result,           \* Option<T>: the value compute returned
    display           \* Option<DAGComputeDisplay>: the live value dot_graph returned

vars == <<node_storage, node_refcount, output_node, graph_id, other_graph_id, pc, err,
          last_call, n_edges, wired, designated, sort_list, node_key, nodes_cleanup,
          node_input_arcs, calls, result, display>>

graph_vars == <<node_storage, node_refcount, output_node, graph_id>>
compute_vars == <<sort_list, node_key, nodes_cleanup, node_input_arcs, calls, result>>

----------------------------------------------------------------------------
\* Helpers on sequences and maps.

Range(s) == {s[i] : i \in 1..Len(s)}

Contains(s, x) == \E i \in 1..Len(s) : s[i] = x

Reverse(s) == [i \in 1..Len(s) |-> s[Len(s) + 1 - i]]

SeqsUpTo(S, n) == UNION {[1..m -> S] : m \in 0..n}

\* map with key k removed
MapRemove(m, k) == [x \in DOMAIN m \ {k} |-> m[x]]

\* map with key k set to v (inserting it when absent)
MapInsert(m, k, v) == [x \in DOMAIN m \cup {k} |-> IF x = k THEN v ELSE m[x]]

----------------------------------------------------------------------------
\* Node<T>

NodeNew(name, func) ==
    [name |-> name, func |-> func, input_nodes |-> <<>>, output_cache |-> <<>>]

\* The value a node function returns on args.
ApplyFunc(func, args) == <<func, args>>

\* Node::eval: [node, panic]
NodeEval(node, args) ==
    IF node.output_cache = <<>>
    THEN [node |-> [node EXCEPT !.output_cache = <<ApplyFunc(node.func, args)>>],
          panic |-> NoPanic]
    ELSE [node |-> node, panic |-> PanicAlreadyEvaluated]

\* Node::computed_val: [val, panic], val an Option
NodeComputedVal(node) ==
    IF node.output_cache # <<>>
    THEN [val |-> node.output_cache, panic |-> NoPanic]
    ELSE [val |-> <<>>, panic |-> PanicNotEvaluated]

----------------------------------------------------------------------------
\* NodeHandle.  issuer is not a field of the program's handle: it records which
\* graph's insert_node returned the handle ("self": the graph modelled here,
\* "other": the second graph).

NodeHandle(k, gid, issuer) == [node_key |-> k, graph_id |-> gid, issuer |-> issuer]

\* The graph as a value: the receiver self of the methods below.
Self == [node_storage |-> node_storage, node_refcount |-> node_refcount,
         output_node |-> output_node, graph_id |-> graph_id]

\* ComputationGraph::default
GraphDefault(addr) ==
    [node_storage |-> <<>>, node_refcount |-> <<>>, output_node |-> <<>>,
     graph_id |-> addr]

\* The handles this graph has issued so far, and those the other graph has issued.
OwnHandles == {NodeHandle(k, graph_id, "self") : k \in DOMAIN node_storage}
OtherHandles == {NodeHandle(k, other_graph_id, "other") : k \in Keys}
Handles == OwnHandles \cup OtherHandles

\* SlotMap::insert: the key of the next slot
NextKey(storage) == Cardinality(DOMAIN storage) + 1

\* ComputationGraph::insert_node: [self, handle, panic]
insert_node(self, name, func) ==
    LET key == NextKey(self.node_storage)
    IN [self |-> [self EXCEPT
                    !.node_storage = MapInsert(@, key, NodeNew(name, func)),
                    !.node_refcount = MapInsert(@, key, 0)],
        handle |-> NodeHandle(key, self.graph_id, "self"),
        panic |-> NoPanic]

\* ComputationGraph::node_name: [self, name, panic]
node_name(self, node) ==
    IF node.graph_id # self.graph_id
    THEN [self |-> self, name |-> <<>>, panic |-> PanicDifferentGraph]
    ELSE IF node.node_key \notin DOMAIN self.node_storage
    THEN [self |-> self, name |-> <<>>, panic |-> PanicUnwrapNone]
    ELSE [self |-> self, name |-> <<self.node_storage[node.node_key].name>>,
          panic |-> NoPanic]

designate_output_overwrite(self, node) ==
    IF node.graph_id # self.graph_id
    THEN [self |-> self, panic |-> PanicDifferentGraph]
    ELSE IF node.node_key \notin DOMAIN self.node_storage
    THEN [self |-> self, panic |-> PanicContainsKey]
    ELSE [self |-> [self EXCEPT !.output_node = <<node.node_key>>,
                                !.node_refcount[node.node_key] = @ + 1],
          panic |-> NoPanic]

\* ComputationGraph::designate_output: [self, panic]
designate_output(self, node) ==
    IF self.output_node # <<>>
    THEN [self |-> self, panic |-> PanicAlreadyDesignated]
    ELSE IF node.graph_id # self.graph_id
    THEN [self |-> self, panic |-> PanicDifferentGraph]
    ELSE IF node.node_key \notin DOMAIN self.node_storage
    THEN [self |-> self, panic |-> PanicContainsKey]
    ELSE [self |-> [self EXCEPT !.output_node = <<node.node_key>>,
                                !.node_refcount[node.node_key] = @ + 1],
          panic |-> NoPanic]

\* The loop of lines 127-129: one increment per key, in order, until a key that
\* has no counter (get_mut(..).unwrap() panics there, the earlier increments stay).
RECURSIVE IncrementAll(_, _)
IncrementAll(refcount, keys) ==
    IF keys = <<>> THEN [refcount |-> refcount, panic |-> NoPanic]
    ELSE IF Head(keys) \notin DOMAIN refcount
    THEN [refcount |-> refcount, panic |-> PanicUnwrapNone]
    ELSE IncrementAll([refcount EXCEPT ![Head(keys)] = @ + 1], Tail(keys))

set_inputs_no_self_check(self, node, inputs) ==
    IF node.graph_id # self.graph_id
    THEN [self |-> self, panic |-> PanicDifferentGraph]
    ELSE LET input_keys == [i \in 1..Len(inputs) |-> inputs[i].node_key]
             inc == IncrementAll(self.node_refcount, input_keys)
             counted == [self EXCEPT !.node_refcount = inc.refcount]
         IN IF inc.panic # NoPanic
            THEN [self |-> counted, panic |-> inc.panic]
            ELSE IF node.node_key \notin DOMAIN self.node_storage
            THEN [self |-> counted, panic |-> PanicUnwrapNone]
            ELSE [self |-> [counted EXCEPT
                       !.node_storage[node.node_key].input_nodes = input_keys],
                  panic |-> NoPanic]

\* ComputationGraph::set_inputs: [self, panic]
set_inputs(self, node, inputs) ==
    IF node.graph_id # self.graph_id
    THEN [self |-> self, panic |-> PanicDifferentGraph]
    ELSE LET input_keys == [i \in 1..Len(inputs) |-> inputs[i].node_key]
             inc == IncrementAll(self.node_refcount, input_keys)
             counted == [self EXCEPT !.node_refcount = inc.refcount]
         IN IF Contains(input_keys, node.node_key)
            THEN [self |-> self, panic |-> PanicSelfLoop]
            ELSE IF inc.panic # NoPanic
            THEN [self |-> counted, panic |-> inc.panic]
            ELSE IF node.node_key \notin DOMAIN self.node_storage
            THEN [self |-> counted, panic |-> PanicUnwrapNone]
            ELSE [self |-> [counted EXCEPT
                       !.node_storage[node.node_key].input_nodes = input_keys],
                  panic |-> NoPanic]

----------------------------------------------------------------------------
\* The topological sorter and the dead-code sweep.

\* the state threaded through toposort_helper: final_list, temporary_set, and the
\* panic that ended the traversal (if any)
SortState(final_list, temporary_set, panic) ==
    [final_list |-> final_list, temporary_set |-> temporary_set, panic |-> panic]

RECURSIVE toposort_helper(_, _, _), toposort_inputs(_, _, _, _)

\* toposort_helper with the cycle assertion lost: a node met again while it is
\* still being visited is skipped like a finished one
toposort_helper_no_cycle_check(storage, node, st) ==
    IF st.panic # NoPanic THEN st
    ELSE IF Contains(st.final_list, node) \/ node \in st.temporary_set THEN st
    ELSE IF node \notin DOMAIN storage THEN [st EXCEPT !.panic = PanicUnwrapNone]
    ELSE LET entered == [st EXCEPT !.temporary_set = @ \cup {node}]
             after == toposort_inputs(storage, storage[node].input_nodes, entered, 1)
         IN IF after.panic # NoPanic THEN after
            ELSE [after EXCEPT !.temporary_set = @ \ {node},
                               !.final_list = <<node>> \o @]

\* ComputationGraph::toposort_helper
toposort_helper(storage, node, st) ==
    IF st.panic # NoPanic THEN st
    ELSE IF Contains(st.final_list, node) THEN st
    ELSE IF node \in st.temporary_set THEN [st EXCEPT !.panic = PanicCycle]
    ELSE IF node \notin DOMAIN storage THEN [st EXCEPT !.panic = PanicUnwrapNone]
    ELSE LET entered == [st EXCEPT !.temporary_set = @ \cup {node}]
             after == toposort_inputs(storage, storage[node].input_nodes, entered, 1)
         IN IF after.panic # NoPanic THEN after
            ELSE [after EXCEPT !.temporary_set = @ \ {node},
                               !.final_list = <<node>> \o @]

\* the loop of lines 181-183 over the input list, from its k-th element on
toposort_inputs(storage, inputs, st, k) ==
    IF k > Len(inputs) THEN st
    ELSE toposort_inputs(storage, inputs, toposort_helper(storage, inputs[k], st), k + 1)

\* The order in which SlotMap::retain visits the slots.
SlotOrder == [i \in 1..MaxNodes |-> i]

\* lines 155-157: one decrement per input of the swept node; get_mut(..).unwrap()
\* panics on a key without counter, and u32 subtraction panics below zero
RECURSIVE DecrementAll(_, _)

\* the sweep without the decrements of lines 155-157: a swept node is removed
\* and the counters of its inputs are left as they are
DecrementAll_skipped(refcount, keys) == [refcount |-> refcount, panic |-> NoPanic]

DecrementAll(refcount, keys) ==
    IF keys = <<>> THEN [refcount |-> refcount, panic |-> NoPanic]
    ELSE IF Head(keys) \notin DOMAIN refcount
    THEN [refcount |-> refcount, panic |-> PanicUnwrapNone]
    ELSE IF refcount[Head(keys)] = 0
    THEN [refcount |-> refcount, panic |-> PanicSubOverflow]
    ELSE DecrementAll([refcount EXCEPT ![Head(keys)] = @ - 1], Tail(keys))

\* lines 151-163: retain, over the slots ks still to visit: [self, panic]
RECURSIVE Sweep(_, _, _)
Sweep(self, keep, ks) ==
    IF ks = <<>> THEN [self |-> self, panic |-> NoPanic]
    ELSE IF Head(ks) \notin DOMAIN self.node_storage \/ Contains(keep, Head(ks))
    THEN Sweep(self, keep, Tail(ks))
    ELSE LET k == Head(ks)
             dec == DecrementAll(self.node_refcount, self.node_storage[k].input_nodes)
         IN IF dec.panic # NoPanic
            THEN [self |-> [self EXCEPT !.node_refcount = dec.refcount],
                  panic |-> dec.panic]
            ELSE Sweep([self EXCEPT !.node_refcount = MapRemove(dec.refcount, k),
                                    !.node_storage = MapRemove(@, k)],
                       keep, Tail(ks))

\* line 147 with every node of storage taken as a root instead of out_node alone
RECURSIVE toposort_roots(_, _, _)
toposort_roots(storage, roots, st) ==
    IF roots = <<>> THEN st
    ELSE toposort_roots(storage, Tail(roots), toposort_helper(storage, Head(roots), st))

toposort_all_nodes(storage, out_node) ==
    LET others == toposort_roots(storage,
                      SelectSeq(SlotOrder, LAMBDA k : k \in DOMAIN storage /\ k # out_node),
                      SortState(<<>>, {}, NoPanic))
    IN toposort_helper(storage, out_node, others)

\* lines 145-147: the traversal from the output node
toposort(storage, out_node) ==
    toposort_helper(storage, out_node, SortState(<<>>, {}, NoPanic))

\* computation_order without the reversal of line 169: the list is returned in
\* the order the traversal built it, consumers first
computation_order_no_reverse(self) ==
    IF self.output_node = <<>>
    THEN [self |-> self, sort_list |-> <<>>, panic |-> PanicNotDesignated]
    ELSE LET sorted == toposort(self.node_storage, self.output_node[1])
             swept == Sweep(self, sorted.final_list, SlotOrder)
         IN IF sorted.panic # NoPanic
            THEN [self |-> self, sort_list |-> <<>>, panic |-> sorted.panic]
            ELSE IF swept.panic # NoPanic
            THEN [self |-> swept.self, sort_list |-> <<>>, panic |-> swept.panic]
            ELSE [self |-> swept.self, sort_list |-> sorted.final_list,
                  panic |-> NoPanic]

\* ComputationGraph::computation_order: [self, sort_list, panic]
computation_order(self) ==
    IF self.output_node = <<>>
    THEN [self |-> self, sort_list |-> <<>>, panic |-> PanicNotDesignated]
    ELSE LET sorted == toposort(self.node_storage, self.output_node[1])
             swept == Sweep(self, sorted.final_list, SlotOrder)
         IN IF sorted.panic # NoPanic
            THEN [self |-> self, sort_list |-> <<>>, panic |-> sorted.panic]
            ELSE IF swept.panic # NoPanic
            THEN [self |-> swept.self, sort_list |-> <<>>, panic |-> swept.panic]
            ELSE [self |-> swept.self, sort_list |-> Reverse(sorted.final_list),
                  panic |-> NoPanic]

----------------------------------------------------------------------------
\* The evaluation loop of compute.

Arc(key, val) == [key |-> key, val |-> val]

GatherState(refcount, cleanup, arcs, panic) ==
    [node_refcount |-> refcount, nodes_cleanup |-> cleanup, node_input_arcs |-> arcs,
     panic |-> panic]

\* The closure of lines 200-209 applied to the keys in order.
RECURSIVE GatherInputs(_, _, _)
GatherInputs(storage, keys, st) ==
    IF keys = <<>> \/ st.panic # NoPanic THEN st
    ELSE LET key == Head(keys)
             refcnt == st.node_refcount
         IN IF key \notin DOMAIN refcnt THEN [st EXCEPT !.panic = PanicUnwrapNone]
            ELSE IF refcnt[key] = 0 THEN [st EXCEPT !.panic = PanicRefcntZero]
            ELSE LET dec == [refcnt EXCEPT ![key] = @ - 1]
                     cleanup == IF dec[key] = 0 THEN Append(st.nodes_cleanup, key)
                                ELSE st.nodes_cleanup
                     counted == [st EXCEPT !.node_refcount = dec,
                                           !.nodes_cleanup = cleanup]
                 IN IF key \notin DOMAIN storage
                    THEN [counted EXCEPT !.panic = PanicUnwrapNone]
                    ELSE LET cv == NodeComputedVal(storage[key])
                         IN IF cv.panic # NoPanic
                            THEN [counted EXCEPT !.panic = cv.panic]
                            ELSE GatherInputs(storage, Tail(keys),
                                     [counted EXCEPT !.node_input_arcs =
                                          Append(@, Arc(key, cv.val[1]))])

\* ascending sort of a sequence of keys
RECURSIVE SortKeys(_)
SortKeys(keys) ==
    IF keys = <<>> THEN <<>>
    ELSE LET m == CHOOSE x \in Range(keys) : \A y \in Range(keys) : x <= y
             first == CHOOSE i \in 1..Len(keys) : keys[i] = m
         IN <<m>> \o SortKeys(SubSeq(keys, 1, first - 1) \o SubSeq(keys, first + 1, Len(keys)))

\* gather_inputs taking the inputs in storage order instead of declared order
gather_inputs_storage_order(self, key) ==
    IF key \notin DOMAIN self.node_storage
    THEN GatherState(self.node_refcount, <<>>, <<>>, PanicUnwrapNone)
    ELSE GatherInputs(self.node_storage, SortKeys(self.node_storage[key].input_nodes),
                      GatherState(self.node_refcount, <<>>, <<>>, NoPanic))

\* lines 195-214 of compute for the node key: the counters decremented, the
\* keys marked for removal and the Arcs collected
gather_inputs(self, key) ==
    IF key \notin DOMAIN self.node_storage
    THEN GatherState(self.node_refcount, <<>>, <<>>, PanicUnwrapNone)
    ELSE GatherInputs(self.node_storage, self.node_storage[key].input_nodes,
                      GatherState(self.node_refcount, <<>>, <<>>, NoPanic))

RECURSIVE remove_cleanup(_, _)

\* the removal of lines 216-219 left out: the marked nodes stay in storage
\* while the node's function runs
remove_cleanup_skipped(self, cleanup) == self

\* lines 216-219: [self]
remove_cleanup(self, cleanup) ==
    IF cleanup = <<>> THEN self
    ELSE remove_cleanup([self EXCEPT !.node_storage = MapRemove(@, Head(cleanup)),
                                     !.node_refcount = MapRemove(@, Head(cleanup))],
                        Tail(cleanup))

\* eval_node with the assignment to output_cache of line 41 lost: the function
\* runs but the node keeps an empty cache
eval_node_cache_lost(self, key, arcs) ==
    LET args == [i \in 1..Len(arcs) |-> arcs[i].val]
    IN IF key \notin DOMAIN self.node_storage
       THEN [self |-> self, call |-> <<>>, panic |-> PanicUnwrapNone]
       ELSE LET ev == NodeEval(self.node_storage[key], args)
            IN IF ev.panic # NoPanic
               THEN [self |-> self, call |-> <<>>, panic |-> ev.panic]
               ELSE [self |-> self,
                     call |-> <<[node |-> key, args |-> args,
                                 result |-> ev.node.output_cache[1]]>>,
                     panic |-> NoPanic]

\* lines 221-222: [self, call, panic]
eval_node(self, key, arcs) ==
    LET args == [i \in 1..Len(arcs) |-> arcs[i].val]
    IN IF key \notin DOMAIN self.node_storage
       THEN [self |-> self, call |-> <<>>, panic |-> PanicUnwrapNone]
       ELSE LET ev == NodeEval(self.node_storage[key], args)
            IN IF ev.panic # NoPanic
               THEN [self |-> self, call |-> <<>>, panic |-> ev.panic]
               ELSE [self |-> [self EXCEPT !.node_storage[key] = ev.node],
                     call |-> <<[node |-> key, args |-> args,
                                 result |-> ev.node.output_cache[1]]>>,
                     panic |-> NoPanic]

\* the count when the removed output node is not dropped (line 230 left out):
\* its cache goes on holding a reference to the value
StrongCount_node_kept(self, key, arcs) ==
    Cardinality({i \in 1..Len(arcs) : arcs[i].key = key}) + 1

\* Number of live Arcs of the value of node key, beside the one named held.
StrongCount(self, key, arcs) ==
    Cardinality({i \in 1..Len(arcs) : arcs[i].key = key})
    + (IF key \in DOMAIN self.node_storage /\ self.node_storage[key].output_cache # <<>>
       THEN 1 ELSE 0)

\* lines 224-236: [self, result, panic]
finish(self, arcs) ==
    IF Cardinality(DOMAIN self.node_storage) # 1
    THEN [self |-> self, result |-> <<>>, panic |-> PanicLenNotOne]
    ELSE IF self.output_node = <<>>
    THEN [self |-> self, result |-> <<>>, panic |-> PanicUnwrapNone]
    ELSE LET output_key == self.output_node[1]
             taken == [self EXCEPT !.output_node = <<>>]
         IN IF output_key \notin DOMAIN self.node_storage
            THEN [self |-> taken, result |-> <<>>, panic |-> PanicUnwrapNone]
            ELSE LET output_val == NodeComputedVal(self.node_storage[output_key])
                     removed == [taken EXCEPT !.node_storage = MapRemove(@, output_key)]
                 IN IF output_val.panic # NoPanic
                    THEN [self |-> removed, result |-> <<>>, panic |-> output_val.panic]
                    ELSE IF StrongCount(removed, output_key, arcs) # 0
                    THEN [self |-> removed, result |-> <<>>, panic |-> PanicTryUnwrap]
                    ELSE [self |-> removed, result |-> output_val.val, panic |-> NoPanic]
----------------------------------------------------------------------------
\* dot_graph: DAGComputeDisplay.

\* the orders in which a HashMap holding the keys S may iterate over them
RECURSIVE KeyOrders(_)
KeyOrders(S) ==
    IF S = {} THEN {<<>>}
    ELSE UNION {{<<k>> \o o : o \in KeyOrders(S \ {k})} : k \in S}

\* lines 253-256: true_keyset, the HashMap from every key of storage to its name
true_keyset(self) ==
    [k \in DOMAIN self.node_storage |-> self.node_storage[k].name]

BfsState(explored_keyset, edge_list, bfs_queue, panic) ==
    [explored_keyset |-> explored_keyset, edge_list |-> edge_list,
     bfs_queue |-> bfs_queue, panic |-> panic]

RECURSIVE visit_inputs(_, _, _, _), visit_inputs_edge_if_new(_, _, _, _)
RECURSIVE bfs(_, _)
RECURSIVE explore_components(_, _, _)

\* visit_inputs with the push of line 281 moved into the if of line 283: an
\* edge is recorded only when its input is met for the first time
visit_inputs_edge_if_new(inputs, current, st, k) ==
    IF k > Len(inputs) THEN st
    ELSE LET input == inputs[k]
         IN visit_inputs_edge_if_new(inputs, current,
                IF input \in st.explored_keyset THEN st
                ELSE [st EXCEPT !.edge_list = Append(@, <<input, current>>),
                                !.explored_keyset = @ \cup {input},
                                !.bfs_queue = Append(@, input)],
                k + 1)

\* lines 279-286: the loop over the inputs of current, from the k-th on
visit_inputs(inputs, current, st, k) ==
    IF k > Len(inputs) THEN st
    ELSE LET input == inputs[k]
             pushed == [st EXCEPT !.edge_list = Append(@, <<input, current>>)]
         IN visit_inputs(inputs, current,
                IF input \in st.explored_keyset THEN pushed
                ELSE [pushed EXCEPT !.explored_keyset = @ \cup {input},
                                    !.bfs_queue = Append(@, input)],
                k + 1)

\* lines 277-287: the loop that empties bfs_queue
bfs(storage, st) ==
    IF st.bfs_queue = <<>> \/ st.panic # NoPanic THEN st
    ELSE LET current == Head(st.bfs_queue)
             popped == [st EXCEPT !.bfs_queue = Tail(@)]
         IN IF current \notin DOMAIN storage
            THEN [popped EXCEPT !.panic = PanicUnwrapNone]
            ELSE bfs(storage, visit_inputs(storage[current].input_nodes, current, popped, 1))

\* lines 261-288: one breadth-first traversal per iteration, rooted at the first
\* key of true_keyset (in its iteration order) that is not explored yet
explore_components(storage, order, st) ==
    IF st.panic # NoPanic \/ ~(Len(order) > Cardinality(st.explored_keyset)) THEN st
    ELSE IF ~(st.explored_keyset \subseteq Range(order))
    THEN [st EXCEPT !.panic = PanicDebugAssert]
    ELSE LET unexplored == SelectSeq(order, LAMBDA k : k \notin st.explored_keyset)
         IN IF unexplored = <<>> THEN [st EXCEPT !.panic = PanicUnwrapNone]
            ELSE LET bfs_root == Head(unexplored)
                     started == [st EXCEPT !.bfs_queue = <<bfs_root>>,
                                           !.explored_keyset = @ \cup {bfs_root}]
                 IN explore_components(storage, order, bfs(storage, started))

\* DAGComputeDisplay::new, true_keyset iterating in the given order:
\* [display, panic], display an Option
DAGComputeDisplayNew(self, order) ==
    LET st == explore_components(self.node_storage, order,
                                 BfsState({}, <<>>, <<>>, NoPanic))
    IN IF st.panic # NoPanic THEN [display |-> <<>>, panic |-> st.panic]
       ELSE IF st.explored_keyset # Range(order)
       THEN [display |-> <<>>, panic |-> PanicDebugAssert]
       ELSE [display |-> <<[names |-> true_keyset(self),
                            output_node |-> self.output_node,
                            edge_list |-> st.edge_list]>>,
             panic |-> NoPanic]

\* ComputationGraph::dot_graph
dot_graph(self, order) == DAGComputeDisplayNew(self, order)

\* KeyData::as_ffi: the version in the high 32 bits and the slot index in the
\* low ones, kept as the pair of the two halves; no key of the builder phase
\* has been removed, so every version is 1
as_ffi(key) == <<1, key>>

\* Display::fmt, names iterating in the given order: the lines written.  The
\* label carries the name; the replacement of line 306 acts on quote
\* characters, which no name of Names holds.
fmt(d, order) ==
    <<[kind |-> "open"]>>
    \o [i \in 1..Len(order) |->
          [kind |-> "node", id |-> as_ffi(order[i]), label |-> d.names[order[i]],
           box |-> d.output_node = <<order[i]>>]]
    \o [i \in 1..Len(d.edge_list) |->
          [kind |-> "edge", from |-> as_ffi(d.edge_list[i][1]),
           to |-> as_ffi(d.edge_list[i][2])]]
    \o <<[kind |-> "close"]>>

----------------------------------------------------------------------------
\* The program: a client that builds one graph with any sequence of builder
\* calls, given handles of this graph or of the other one, and then calls compute.

Call(op, target_foreign, inputs_foreign, self_input) ==
    [op |-> op, target_foreign |-> target_foreign, inputs_foreign |-> inputs_foreign,
     self_input |-> self_input]

Init ==
    /\ graph_id = FirstAddr
    /\ other_graph_id \in Addrs
    /\ node_storage = GraphDefault(graph_id).node_storage
    /\ node_refcount = GraphDefault(graph_id).node_refcount
    /\ output_node = GraphDefault(graph_id).output_node
    /\ pc = "build"
    /\ err = NoPanic
    /\ last_call = Call("new", FALSE, FALSE, FALSE)
    /\ n_edges = 0
    /\ wired = <<>>
    /\ designated = <<>>
    /\ sort_list = <<>>
    /\ node_key = <<>>
    /\ nodes_cleanup = <<>>
    /\ node_input_arcs = <<>>
    /\ calls = <<>>
    /\ result = <<>>
    /\ display = <<>>

\* the graph after a method returned r, or the panic that ended the program
Returned(r, next_pc) ==
    /\ node_storage' = r.self.node_storage
    /\ node_refcount' = r.self.node_refcount
    /\ output_node' = r.self.output_node
    /\ graph_id' = r.self.graph_id
    /\ pc' = IF r.panic = NoPanic THEN next_pc ELSE "panicked"
    /\ err' = r.panic

InsertNode ==
    /\ pc = "build"
    /\ display = <<>>
    /\ Cardinality(DOMAIN node_storage) < MaxNodes
    /\ \E name \in Names :
          LET r == insert_node(Self, name, NextKey(node_storage))
          IN /\ Returned(r, "build")
             /\ wired' = MapInsert(wired, r.handle.node_key, <<>>)
    /\ last_call' = Call("insert_node", FALSE, FALSE, FALSE)
    /\ UNCHANGED display
    /\ UNCHANGED <<other_graph_id, n_edges, designated>>
    /\ UNCHANGED compute_vars

NodeName ==
    /\ pc = "build"
    /\ display = <<>>
    /\ \E node \in Handles :
          /\ Returned(node_name(Self, node), "build")
          /\ last_call' = Call("node_name", node.issuer = "other", FALSE, FALSE)
    /\ UNCHANGED <<other_graph_id, n_edges, wired, designated, display>>
    /\ UNCHANGED compute_vars

DesignateOutput ==
    /\ pc = "build"
    /\ display = <<>>
    /\ \E node \in Handles :
          LET r == designate_output(Self, node)
          IN /\ Returned(r, "build")
             /\ designated' = IF r.panic = NoPanic THEN <<node.node_key>> ELSE designated
          /\ last_call' = Call("designate_output", node.issuer = "other", FALSE, FALSE)
    /\ UNCHANGED display
    /\ UNCHANGED <<other_graph_id, n_edges, wired>>
    /\ UNCHANGED compute_vars

\* node is borrowed mutably and the inputs immutably, so node is none of the inputs
SetInputs ==
    /\ pc = "build"
    /\ display = <<>>
    /\ \E node \in Handles :
       \E inputs \in SeqsUpTo(Handles \ {node}, MaxEdges - n_edges) :
          LET r == set_inputs(Self, node, inputs)
              input_keys == [i \in 1..Len(inputs) |-> inputs[i].node_key]
          IN /\ Returned(r, "build")
             /\ wired' = IF r.panic = NoPanic
                         THEN [wired EXCEPT ![node.node_key] = input_keys]
                         ELSE wired
             /\ n_edges' = n_edges + Len(inputs)
             /\ last_call' = Call("set_inputs", node.issuer = "other",
                                  \E i \in 1..Len(inputs) : inputs[i].issuer = "other",
                                  Contains(input_keys, node.node_key))
    /\ UNCHANGED display
    /\ UNCHANGED <<other_graph_id, designated>>
    /\ UNCHANGED compute_vars

\* dot_graph borrows the graph (&self) for as long as the display lives: the
\* calls taking &mut self or self are possible only once it is dropped.  The
\* client holds one display at a time and makes its next call after dropping it.
DotGraph ==
    /\ pc = "build"
    /\ display = <<>>
    /\ \E r \in {dot_graph(Self, order) : order \in KeyOrders(DOMAIN node_storage)} :
          /\ Returned([self |-> Self, panic |-> r.panic], "build")
          /\ display' = r.display
    /\ last_call' = Call("dot_graph", FALSE, FALSE, FALSE)
    /\ UNCHANGED <<other_graph_id, n_edges, wired, designated>>
    /\ UNCHANGED compute_vars

\* the display goes out of scope
DropDisplay ==
    /\ pc = "build"
    /\ display # <<>>
    /\ display' = <<>>
    /\ UNCHANGED <<graph_vars, other_graph_id, pc, err, last_call, n_edges, wired, designated>>
    /\ UNCHANGED compute_vars

\* compute without the check of line 190
compute_begin_unchecked(self) == [self |-> self, panic |-> NoPanic]

\* compute, line 190
compute_begin(self) ==
    IF self.output_node = <<>>
    THEN [self |-> self, panic |-> PanicNotDesignated]
    ELSE [self |-> self, panic |-> NoPanic]

ComputeBegin ==
    /\ pc = "build"
    /\ display = <<>>
    /\ Returned(compute_begin(Self), "computation_order")
    /\ last_call' = Call("compute", FALSE, FALSE, FALSE)
    /\ UNCHANGED display
    /\ UNCHANGED <<other_graph_id, n_edges, wired, designated>>
    /\ UNCHANGED compute_vars

\* compute, line 192
ComputationOrder ==
    /\ pc = "computation_order"
    /\ LET r == computation_order(Self)
       IN /\ Returned(r, "loop")
          /\ sort_list' = r.sort_list
    /\ UNCHANGED display
    /\ UNCHANGED <<other_graph_id, last_call, n_edges, wired, designated, node_key,
                   nodes_cleanup, node_input_arcs, calls, result>>

\* compute, lines 194-214: the next node of the order and its inputs
Gather ==
    /\ pc = "loop"
    /\ sort_list # <<>>
    /\ LET g == gather_inputs(Self, Head(sort_list))
       IN /\ Returned([self |-> [Self EXCEPT !.node_refcount = g.node_refcount],
                       panic |-> g.panic], "cleanup")
          /\ nodes_cleanup' = g.nodes_cleanup
          /\ node_input_arcs' = g.node_input_arcs
    /\ node_key' = <<Head(sort_list)>>
    /\ sort_list' = Tail(sort_list)
    /\ UNCHANGED display
    /\ UNCHANGED <<other_graph_id, last_call, n_edges, wired, designated, calls, result>>

\* compute, lines 216-219
Cleanup ==
    /\ pc = "cleanup"
    /\ Returned([self |-> remove_cleanup(Self, nodes_cleanup), panic |-> NoPanic], "eval")
    /\ nodes_cleanup' = <<>>
    /\ UNCHANGED display
    /\ UNCHANGED <<other_graph_id, last_call, n_edges, wired, designated, sort_list, node_key,
                   node_input_arcs, calls, result>>

\* compute, lines 221-223: the node function runs; the Arcs are dropped at the end
\* of the loop body
Eval ==
    /\ pc = "eval"
    /\ LET r == eval_node(Self, node_key[1], node_input_arcs)
       IN /\ Returned(r, "loop")
          /\ calls' = calls \o r.call
          /\ node_input_arcs' = IF r.panic = NoPanic THEN <<>> ELSE node_input_arcs
    /\ UNCHANGED display
    /\ UNCHANGED <<other_graph_id, last_call, n_edges, wired, designated, sort_list, node_key,
                   nodes_cleanup, result>>

\* compute, lines 224-236
Finish ==
    /\ pc = "loop"
    /\ sort_list = <<>>
    /\ LET r == finish(Self, node_input_arcs)
       IN /\ Returned(r, "done")
          /\ result' = r.result
    /\ UNCHANGED display
    /\ UNCHANGED <<other_graph_id, last_call, n_edges, wired, designated, sort_list, node_key,
                   nodes_cleanup, node_input_arcs, calls>>

Next ==
    \/ InsertNode
    \/ NodeName
    \/ DesignateOutput
    \/ SetInputs
    \/ DotGraph
    \/ DropDisplay
    \/ ComputeBegin
    \/ ComputationOrder
    \/ Gather
    \/ Cleanup
    \/ Eval
    \/ Finish

Spec == Init /\ [][Next]_vars

----------------------------------------------------------------------------
TypeOK ==
    /\ pc \in {"build", "computation_order", "loop", "cleanup", "eval", "done", "panicked"}
    /\ DOMAIN node_storage \subseteq Keys
    /\ DOMAIN node_refcount \subseteq Keys
    /\ \A k \in DOMAIN node_refcount : node_refcount[k] \in Nat
    /\ Len(output_node) <= 1
    /\ (pc = "panicked") = (err # NoPanic)

----------------------------------------------------------------------------
\* The graph as the client declared it: wired and designated, which compute
\* never changes.

RECURSIVE Closure(_)
Closure(S) ==
    LET T == S \cup UNION {Range(wired[k]) : k \in S}
    IN IF T = S THEN S ELSE Closure(T)

\* the nodes reachable from the designated output along input edges
Reachable == IF designated = <<>> THEN {} ELSE Closure({designated[1]})

\* k lies on a cycle of input edges
OnCycle(k) == k \in Closure(Range(wired[k]))

ReachableCycle == \E k \in Reachable : OnCycle(k)

Acyclic == \A k \in DOMAIN wired : ~OnCycle(k)

\* the reference evaluator: the function of n applied to the values of its
\* declared inputs (the function of the i-th inserted node is the symbol i)
RECURSIVE RefEval(_)
RefEval(n) == ApplyFunc(n, [i \in 1..Len(wired[n]) |-> RefEval(wired[n][i])])

InCompute == last_call.op = "compute"
ComputeEnded == InCompute /\ pc \in {"done", "panicked"}

Invoked(n) == \E i \in 1..Len(calls) : calls[i].node = n

----------------------------------------------------------------------------
\* C1: on every graph whose output-reachable part is acyclic, compute invokes
\* every node reachable from the output exactly once, each one after all of its
\* declared inputs, and no function twice.
C1_ReachableInvokedOnceAfterInputs ==
    (designated # <<>> /\ ~ReachableCycle) =>
        /\ \A i, j \in 1..Len(calls) : i # j => calls[i].node # calls[j].node
        /\ \A i \in 1..Len(calls) : \A k \in Range(wired[calls[i].node]) :
               \E j \in 1..(i - 1) : calls[j].node = k
        /\ ComputeEnded => \A n \in Reachable : Invoked(n)

\* C2: on every acyclic graph with a designated output, compute returns the value
\* of the reference evaluator at the output node.
C2_ComputeReturnsReferenceValue ==
    (ComputeEnded /\ designated # <<>> /\ Acyclic) =>
        result = <<RefEval(designated[1])>>

\* C3: whatever unreachable nodes are present, however inserted and wired, the
\* sweep removes all of them without failing and compute completes with the
\* output value.
C3_SweepRemovesUnreachableWithoutFailing ==
    (InCompute /\ designated # <<>> /\ ~ReachableCycle) =>
        /\ pc # "panicked"
        /\ pc \in {"loop", "cleanup", "eval", "done"} =>
               DOMAIN node_storage \subseteq Reachable
        /\ pc = "done" => result # <<>>

\* C4: the function of a node that is not reachable from the designated output
\* is never invoked.
C4_UnreachableNeverInvoked ==
    \A i \in 1..Len(calls) : calls[i].node \in Reachable

\* compute returned on a graph that held an unreachable node with an input
C4_Witness ==
    /\ pc = "done"
    /\ \E k \in DOMAIN wired \ Reachable : wired[k] # <<>>

\* C5: with a cycle reachable from the output, compute fails with the cycle
\* error in the sorter and no function has been invoked.
C5_CycleFailsBeforeAnyInvocation ==
    (InCompute /\ designated # <<>> /\ ReachableCycle) =>
        /\ calls = <<>>
        /\ pc \in {"computation_order", "panicked"}
        /\ pc = "panicked" => err = PanicCycle

C5_Witness ==
    /\ pc = "panicked"
    /\ err = PanicCycle
    /\ ReachableCycle

\* C6: designate_output on a graph that already has an output fails and leaves
\* the output, the input lists and the counters as they were.
C6_SecondDesignateFailsUnchanged ==
    [][(pc = "build" /\ output_node # <<>> /\ last_call'.op = "designate_output") =>
          /\ pc' = "panicked"
          /\ err' = PanicAlreadyDesignated
          /\ UNCHANGED <<output_node, node_storage, node_refcount>>]_vars

C6_Witness ==
    /\ pc = "panicked"
    /\ err = PanicAlreadyDesignated
    /\ last_call.op = "designate_output"
    /\ output_node # <<>>

\* C7: set_inputs given the node's own key among the inputs fails before any
\* counter is incremented and before the list is replaced, and no input list
\* ever contains its own node.
C7_SelfInputFailsUnchanged ==
    /\ [](\A k \in DOMAIN node_storage : ~Contains(node_storage[k].input_nodes, k))
    /\ [][(pc = "build" /\ last_call'.op = "set_inputs" /\ last_call'.self_input) =>
            /\ pc' = "panicked"
            /\ err' \in {PanicSelfLoop, PanicDifferentGraph}
            /\ UNCHANGED <<node_storage, node_refcount>>]_vars

C7_Witness ==
    /\ pc = "panicked"
    /\ err = PanicSelfLoop
    /\ last_call.self_input

\* C8: a node function receives as many arguments as the node has declared
\* inputs, the i-th being the value computed by the i-th node of the list of the
\* last successful set_inputs.
C8_ArgumentsInDeclaredOrder ==
    \A i \in 1..Len(calls) :
        LET ins == wired[calls[i].node]
        IN /\ Len(calls[i].args) = Len(ins)
           /\ \A j \in 1..Len(ins) :
                  \E p \in 1..(i - 1) : /\ calls[p].node = ins[j]
                                        /\ calls[p].result = calls[i].args[j]

\* a function was invoked with two inputs declared against the storage order
C8_Witness ==
    \E i \in 1..Len(calls) :
        LET ins == wired[calls[i].node]
        IN Len(ins) = 2 /\ ins[1] > ins[2] /\ Len(calls[i].args) = 2

\* C9: compute without a designated output fails with "Output not yet
\* designated", no node removed and no function invoked.
C9_ComputeWithoutOutputFails ==
    (InCompute /\ designated = <<>>) =>
        /\ pc = "panicked"
        /\ err = PanicNotDesignated
        /\ calls = <<>>
        /\ DOMAIN node_storage = DOMAIN wired

C9_Witness ==
    /\ InCompute
    /\ err = PanicNotDesignated
    /\ DOMAIN node_storage # {}

\* C10: a builder call given a handle of another graph (node_name,
\* designate_output, the target of set_inputs, any input of set_inputs) fails
\* and leaves the graph unchanged.  Stated for two graphs whose tokens differ,
\* the case in which the owner check can tell the graphs apart at all.
C10_ForeignHandleFailsUnchanged ==
    [][(/\ pc = "build"
        /\ other_graph_id # graph_id
        /\ last_call'.op \in {"node_name", "designate_output", "set_inputs"}
        /\ last_call'.target_foreign \/ last_call'.inputs_foreign) =>
          /\ pc' = "panicked"
          /\ UNCHANGED graph_vars]_vars

----------------------------------------------------------------------------
\* the occurrences of k in the input lists of the nodes of a storage
Occurrences(storage, k) ==
    Cardinality({p \in UNION {{<<n, i>> : i \in 1..Len(storage[n].input_nodes)} :
                              n \in DOMAIN storage} :
                   storage[p[1]].input_nodes[p[2]] = k})

\* the counter k would have if it counted exactly the present references
ExactCount(storage, out, k) ==
    Occurrences(storage, k) + (IF out = <<k>> THEN 1 ELSE 0)

CountersExact(self) ==
    \A k \in DOMAIN self.node_storage :
        /\ k \in DOMAIN self.node_refcount
        /\ self.node_refcount[k] = ExactCount(self.node_storage, self.output_node, k)

\* C11: after any sequence of successful builder calls, the counter of every
\* node equals the number of its occurrences in the current input lists of
\* all nodes, plus one if it is the designated output.
C11_CountersEqualOccurrences ==
    pc = "build" => CountersExact(Self)

\* C12: on an acyclic graph, when the evaluation loop has processed every
\* sorted node, storage holds exactly the designated output node, and the
\* length assertion does not fail.
C12_LoopEndsWithOnlyOutput ==
    (InCompute /\ Acyclic) =>
        /\ (pc = "loop" /\ sort_list = <<>>) =>
               DOMAIN node_storage = {designated[1]}
        /\ err # PanicLenNotOne

\* the consumers of k among the nodes the evaluation has yet to invoke
PendingConsumers(k) ==
    {c \in Reachable : k \in Range(wired[c]) /\ ~Invoked(c)}

\* C13: after each evaluation step, every evaluated non-output node still in
\* storage has a reachable consumer that has not been evaluated yet: a node
\* leaves storage in the step that evaluates its last consumer.
C13_EvaluatedNodeKeptOnlyForPendingConsumer ==
    (InCompute /\ pc = "loop") =>
        \A k \in DOMAIN node_storage :
            (node_storage[k].output_cache # <<>> /\ <<k>> # designated) =>
                PendingConsumers(k) # {}

\* the inputs of the node being evaluated, as collected by the current step
InputKeys == {node_input_arcs[i].key : i \in 1..Len(node_input_arcs)}

\* the inputs whose counter reached zero in the current step
ZeroedThisStep ==
    {k \in InputKeys : k \notin DOMAIN node_refcount \/ node_refcount[k] = 0}

\* C14 as stated: at the moment the current node's function is invoked, the
\* inputs whose counter reached zero in this step are still in storage (they
\* are removed only after the invocation).
C14_ZeroedInputsPresentAtInvocation ==
    (InCompute /\ pc = "eval") => ZeroedThisStep \subseteq DOMAIN node_storage

\* C14 amended: the inputs whose counter reached zero in a step are exactly
\* the ones marked for removal once the values are collected; they are removed
\* from storage and from the counters before the node's function is invoked,
\* so they are absent at the moment of invocation, while the other inputs are
\* still stored.
C14_ZeroedInputsRemovedBeforeInvocation ==
    /\ (InCompute /\ pc = "cleanup") =>
          /\ Range(nodes_cleanup) = ZeroedThisStep
          /\ ZeroedThisStep \subseteq DOMAIN node_storage
    /\ (InCompute /\ pc = "eval") =>
          /\ ZeroedThisStep \cap DOMAIN node_storage = {}
          /\ ZeroedThisStep \cap DOMAIN node_refcount = {}
          /\ InputKeys \ ZeroedThisStep \subseteq DOMAIN node_storage

C14_Witness ==
    /\ InCompute
    /\ pc = "eval"
    /\ ZeroedThisStep # {}

\* the state in which computation_order has just returned to compute
OrderReturned == InCompute /\ pc = "loop" /\ node_key = <<>>

\* C15: whenever computation_order returns, the returned sequence holds every
\* node reachable from the output exactly once, no unreachable node, and every
\* node after all the nodes of its input list.
C15_OrderIsTopologicalOverReachable ==
    OrderReturned =>
        /\ Range(sort_list) = Reachable
        /\ \A i, j \in 1..Len(sort_list) : i # j => sort_list[i] # sort_list[j]
        /\ \A i \in 1..Len(sort_list) :
               \A k \in Range(wired[sort_list[i]]) :
                   \E j \in 1..(i - 1) : sort_list[j] = k

C15_Witness ==
    /\ OrderReturned
    /\ Len(sort_list) >= 2
    /\ DOMAIN wired \ Range(sort_list) # {}

\* the records of the nodes that a step removes from storage
Removed(before, after) ==
    [n \in DOMAIN before \ DOMAIN after |-> before[n]]

\* C16: if the counters are exact when compute starts, then after the sweep
\* the counter of every surviving node equals its occurrences in the input
\* lists of the surviving nodes, plus one for the output; every counter drops
\* by the occurrences of its node in the input lists of the swept nodes, and
\* by nothing on behalf of a surviving node.
C16_SweepKeepsCountersExact ==
    [][(pc = "computation_order" /\ pc' = "loop") =>
          /\ \A k \in DOMAIN node_storage' :
                 /\ k \in DOMAIN node_refcount'
                 /\ node_refcount'[k] =
                        node_refcount[k]
                        - Occurrences(Removed(node_storage, node_storage'), k)
          /\ CountersExact(Self) => CountersExact(Self')]_vars

C16_Witness ==
    /\ OrderReturned
    /\ CountersExact(Self)
    /\ \E n \in DOMAIN wired \ DOMAIN node_storage :
           Range(wired[n]) \cap DOMAIN node_storage # {}

ExtractionReached ==
    /\ InCompute
    /\ pc = "loop"
    /\ sort_list = <<>>
    /\ Cardinality(DOMAIN node_storage) = 1

\* C18: whenever compute reaches the final extraction step, the only live
\* reference to the output value is the cache of the output node (every
\* reference handed to a consumer has been released), so reclaiming the value
\* as uniquely owned succeeds.
C18_OutputValueUniquelyOwnedAtExtraction ==
    /\ err # PanicTryUnwrap
    /\ ExtractionReached =>
          /\ output_node = designated
          /\ DOMAIN node_storage = {output_node[1]}
          /\ node_input_arcs = <<>>
          /\ StrongCount(Self, output_node[1], node_input_arcs) = 1
    /\ (InCompute /\ pc = "done") =>
          /\ result # <<>>
          /\ calls[Len(calls)].result = result[1]

C18_Witness ==
    /\ InCompute
    /\ pc = "done"
    /\ \E i \in 1..Len(calls) : Len(calls[i].args) = 2

\* the lines of a rendering that declare the node id
NodeLines(text, id) ==
    {i \in 1..Len(text) : text[i].kind = "node" /\ text[i].id = id}

\* the lines of a rendering that state the edge from->to
EdgeLines(text, from, to) ==
    {i \in 1..Len(text) : text[i].kind = "edge" /\ text[i].from = from /\ text[i].to = to}

\* the occurrences of k in the input list of c
OccurrencesIn(storage, c, k) ==
    Cardinality({i \in 1..Len(storage[c].input_nodes) : storage[c].input_nodes[i] = k})

\* a rendering lists every node of storage once and one edge per occurrence of
\* an input in an input list, and nothing else
Renders(text, storage) ==
    /\ text[1].kind = "open"
    /\ text[Len(text)].kind = "close"
    /\ \A k \in DOMAIN storage : Cardinality(NodeLines(text, as_ffi(k))) = 1
    /\ \A k, c \in DOMAIN storage :
           Cardinality(EdgeLines(text, as_ffi(k), as_ffi(c))) = OccurrencesIn(storage, c, k)
    /\ Len(text) = 2 + Cardinality(DOMAIN storage)
                     + Cardinality(UNION {{<<n, i>> : i \in 1..Len(storage[n].input_nodes)} :
                                          n \in DOMAIN storage})

\* C19: dot_graph, on any graph the builder calls produce (with or without
\* output, connected or not, acyclic or cyclic), returns without failing and
\* leaves the graph unchanged, and what it renders lists every node of storage
\* exactly once and exactly one edge input->consumer for every occurrence of
\* an input in a node's input list, in whatever order the names iterate.
C19_DotGraphListsNodesAndEdges ==
    /\ [](display # <<>> =>
            \A order \in KeyOrders(DOMAIN display[1].names) :
                Renders(fmt(display[1], order), node_storage))
    /\ [][(pc = "build" /\ display = <<>> /\ last_call'.op = "dot_graph") =>
             /\ pc' = "build"
             /\ display' # <<>>
             /\ display'[1].output_node = output_node
             /\ UNCHANGED graph_vars]_vars

C19_Witness ==
    /\ display # <<>>
    /\ ~Acyclic
    /\ output_node = <<>>
    /\ Cardinality(DOMAIN node_storage) = 3
    /\ Len(display[1].edge_list) = 2

\* C20: the token of the graph differs from the token of every other graph
\* alive at the same time, so a call whose target handle was issued by the
\* other graph never passes the owner check: it fails with the owner-check
\* message (or, for designate_output, with the failure that precedes the
\* check).
C20_TokenUniqueOwnerCheckRejectsForeign ==
    last_call.target_foreign =>
        /\ other_graph_id # graph_id
        /\ err \in {PanicDifferentGraph, PanicAlreadyDesignated}

\* C21: in every run of compute, each decrement of the dead-code sweep and of
\* the evaluation loop finds an existing counter with a value above zero: the
\* sweep about to run fails on none of its decrements, every input of the node
\* about to be evaluated has a counter at least as large as its occurrences in
\* the node's input list, and neither the evaluator's assertion nor a
\* subtraction below zero is ever reached.
C21_DecrementsFindPositiveCounter ==
    /\ (InCompute /\ pc = "computation_order" /\ output_node # <<>>) =>
          LET sorted == toposort(node_storage, output_node[1])
          IN sorted.panic = NoPanic =>
                 Sweep(Self, sorted.final_list, SlotOrder).panic = NoPanic
    /\ (InCompute /\ pc = "loop" /\ sort_list # <<>>) =>
          /\ Head(sort_list) \in DOMAIN node_storage
          /\ \A k \in Range(node_storage[Head(sort_list)].input_nodes) :
                 /\ k \in DOMAIN node_refcount
                 /\ node_refcount[k] >= OccurrencesIn(node_storage, Head(sort_list), k)
    /\ err \notin {PanicRefcntZero, PanicSubOverflow}
====
